---- MODULE Spec2Model ----
(***************************************************************************)
(* Model of twitter-cleanser.py: loading the tweet dump, filtering out     *)
(* retweets and tweets without urls, checking urls in a multiprocessing    *)
(* pool and deleting the tweets that contain a dead url.                   *)
(*                                                                         *)
(* Python strings are sequences of one-character strings.  A Python call   *)
(* that may raise is an operator that yields Return(v) or Raise(e).        *)
(***************************************************************************)
EXTENDS Integers, Sequences, FiniteSets, TLC

VARIABLES
    fin, fhist,         \* filter functions applied to a list of tweets
    lfile, lret,        \* load_tweets_from_file applied to a dump file
    net, ev,            \* one call of check_urls_in_tweet and the network it probes
    argv, args,         \* the --processes option as given and as parsed
    backup, feed,       \* the backup file and the timeline still to be read
    pc,                 \* the line the main program is at
    tweets, cands,      \* the tweets loaded and the list given to the pool
    taskq, worker, outq,        \* the pool: tasks waiting, workers, results waiting
    result, bad_tweets,         \* the results consumed, those selected as bad
    deletes,                    \* the calls of delete_tweet made
    undumped                    \* ids of the tweets whose dump failed

vars == <<fin, fhist, lfile, lret, net, ev, argv, args, backup, feed, pc,
          tweets, cands, taskq, worker, outq, result, bad_tweets, deletes,
          undumped>>
mainVars == <<argv, args, backup, feed, pc, tweets, cands, taskq, worker, outq,
              result, bad_tweets, deletes, undumped>>
poolVars == <<taskq, worker, outq>>
filterVars == <<fin, fhist>>
loadVars == <<lfile, lret>>
evalVars == <<net, ev>>

----------------------------------------------------------------------------
(* Bounds *)

MaxTweets == 2      \* longest list of tweets given to the filters
MaxApply == 4       \* longest chain of filter applications
MaxLines == 3       \* longest dump file, in lines
MaxUrls == 2        \* most urls in the tweet given to check_urls_in_tweet
MaxFeed == 2        \* longest timeline read from the api

----------------------------------------------------------------------------
(* Python values *)

Return(v) == [exc |-> "None", val |-> v]
Raise(e) == [exc |-> e]
Returned(r) == r.exc = "None"

SeqsUpTo(S, n) == UNION {[1..k -> S] : k \in 0..n}

RT == <<"R", "T">>

startswith(s, prefix) ==
    /\ Len(s) >= Len(prefix)
    /\ SubSeq(s, 1, Len(prefix)) = prefix

Texts == { <<"R", "T", " ", "@", "a">>,     \* quoted retweet
           <<"h", "i">>,
           <<" ", "R", "T">>,               \* leading blank: not a retweet
           <<"r", "t">> }                   \* lower case: not a retweet

Urls == {"u1", "u2"}

UrlEntities == { <<>>,
                 <<[expanded_url |-> "u1"]>>,
                 <<[expanded_url |-> "u2"], [expanded_url |-> "u1"]>> }

Ids == {1, 2}

CreatedAt(id) == 100 + id

\* the tweets of a timeline, as json.loads yields them
Posts == { [id |-> i, created_at |-> CreatedAt(i), text |-> t, retweeted |-> r,
            entities |-> [urls |-> e]] :
           i \in Ids, t \in Texts, r \in BOOLEAN, e \in UrlEntities }

----------------------------------------------------------------------------
(* is_retweet, contains_url, filter_retweets, filter_tweets_with_urls *)

is_retweet(tweet_json) ==
    IF "retweeted" \notin DOMAIN tweet_json THEN Raise("KeyError")
    ELSE IF tweet_json.retweeted THEN Return(TRUE)
    ELSE IF "text" \notin DOMAIN tweet_json THEN Raise("KeyError")
    ELSE IF startswith(tweet_json.text, RT) THEN Return(TRUE)
    ELSE Return(FALSE)

contains_url(tweet_json) ==
    IF "entities" \notin DOMAIN tweet_json THEN Raise("KeyError")
    ELSE IF tweet_json.entities.urls # <<>> THEN Return(TRUE)
    ELSE Return(FALSE)

\* retweets removed from the list while a for loop walks it: the element
\* that follows a removed one is skipped
RECURSIVE remove_while_iterating(_, _)
remove_while_iterating(tweet_list, i) ==
    IF i > Len(tweet_list) THEN tweet_list
    ELSE IF is_retweet(tweet_list[i]).val
         THEN remove_while_iterating(
                  SubSeq(tweet_list, 1, i - 1) \o SubSeq(tweet_list, i + 1, Len(tweet_list)),
                  i + 1)
         ELSE remove_while_iterating(tweet_list, i + 1)

filter_retweets_in_place(tweet_list) ==
    IF \E i \in 1..Len(tweet_list) : ~Returned(is_retweet(tweet_list[i]))
    THEN Raise("KeyError")
    ELSE Return(remove_while_iterating(tweet_list, 1))

\* a list comprehension raises what its first failing element raises
filter_retweets(tweet_list) ==
    IF \E i \in 1..Len(tweet_list) : ~Returned(is_retweet(tweet_list[i]))
    THEN Raise("KeyError")
    ELSE Return(SelectSeq(tweet_list, LAMBDA t : ~is_retweet(t).val))

expanded_urls(entities) == [k \in 1..Len(entities) |-> entities[k].expanded_url]

entry_no_created_at(tweet) ==
    [key \in ((DOMAIN tweet) \cap {"id", "text"}) \cup {"urls", "bad"} |->
        IF key = "urls" THEN expanded_urls(tweet.entities.urls)
        ELSE IF key = "bad" THEN FALSE
        ELSE tweet[key]]

entry(tweet) ==
    [key \in ((DOMAIN tweet) \cap {"id", "created_at", "text"}) \cup {"urls", "bad"} |->
        IF key = "urls" THEN expanded_urls(tweet.entities.urls)
        ELSE IF key = "bad" THEN FALSE
        ELSE tweet[key]]

RECURSIVE entries(_)
entries(tweet_list) ==
    IF tweet_list = <<>> THEN <<>>
    ELSE IF contains_url(Head(tweet_list)).val
         THEN <<entry(Head(tweet_list))>> \o entries(Tail(tweet_list))
         ELSE entries(Tail(tweet_list))

filter_tweets_with_urls(tweet_list) ==
    IF \E i \in 1..Len(tweet_list) : ~Returned(contains_url(tweet_list[i]))
    THEN Raise("KeyError")
    ELSE Return(entries(tweet_list))

----------------------------------------------------------------------------
(* The filters applied in a chain: each application takes the value the    *)
(* previous one returned; the first takes the input list.                  *)

FilterInit ==
    /\ fin \in SeqsUpTo(Posts, MaxTweets)
    /\ fhist = <<>>

LastValue == IF fhist = <<>> THEN Return(fin) ELSE fhist[Len(fhist)].res

CanApply == Len(fhist) < MaxApply /\ Returned(LastValue)

ApplyFilterRetweets ==
    /\ CanApply
    /\ fhist' = Append(fhist, [fn |-> "filter_retweets",
                               res |-> filter_retweets(LastValue.val)])
    /\ UNCHANGED <<fin, loadVars, evalVars, mainVars>>

ApplyFilterTweetsWithUrls ==
    /\ CanApply
    /\ fhist' = Append(fhist, [fn |-> "filter_tweets_with_urls",
                               res |-> filter_tweets_with_urls(LastValue.val)])
    /\ UNCHANGED <<fin, loadVars, evalVars, mainVars>>

FilterNext == ApplyFilterRetweets \/ ApplyFilterTweetsWithUrls

----------------------------------------------------------------------------
(* load_tweets_from_file *)

NoFile == [exists |-> FALSE]
File(ls) == [exists |-> TRUE, lines |-> ls]

\* a line of the dump: a tweet as json.dumps wrote it, or text json.loads rejects
JsonLine(tweet) == [json |-> TRUE, value |-> tweet]
BlankLine == [json |-> FALSE, text |-> <<>>]
TruncatedLine == [json |-> FALSE, text |-> <<"{">>]

json_loads(line) ==
    IF line.json THEN Return(line.value) ELSE Raise("JSONDecodeError")

\* the loop of lines 79-80 from line i on; the try of line 77 encloses the
\* whole loop, so the first line that fails to parse ends the reading
RECURSIVE read_lines(_, _, _)
read_lines(ls, i, tweet_list) ==
    IF i > Len(ls) THEN [tweets |-> tweet_list, printed |-> <<>>]
    ELSE IF Returned(json_loads(ls[i]))
         THEN read_lines(ls, i + 1, Append(tweet_list, json_loads(ls[i]).val))
         ELSE [tweets |-> tweet_list, printed |-> <<"Cannot parse JSON-file">>]

load_tweets_from_file(f) ==
    IF ~f.exists THEN [tweets |-> <<>>, printed |-> <<"Cannot find dump file">>]
    ELSE read_lines(f.lines, 1, <<>>)

LoadPosts == { p \in Posts : p.text = <<"h", "i">> /\ ~p.retweeted
                             /\ Len(p.entities.urls) = 1 }

DumpLines == {JsonLine(p) : p \in LoadPosts} \cup {BlankLine, TruncatedLine}

NotLoaded == [called |-> FALSE]

LoadInit ==
    /\ lfile \in {NoFile} \cup {File(ls) : ls \in SeqsUpTo(DumpLines, MaxLines)}
    /\ lret = NotLoaded

LoadTweetsFromFile ==
    /\ ~lret.called
    /\ lret' = [called |-> TRUE] @@ load_tweets_from_file(lfile)
    /\ UNCHANGED <<lfile, filterVars, evalVars, mainVars>>

LoadNext == LoadTweetsFromFile

----------------------------------------------------------------------------
(* check_urls_in_tweet *)

bad_status == {400, 401, 402, 404, 406, 410, 413, 500, 502, 504}

\* what requests.head does for a url: a response with a status code, or an
\* exception: Timeout, ConnectionError, or another RequestException
\* (InvalidSchema, InvalidURL, ...), which is neither of the two
Status(code) == [kind |-> "response", status_code |-> code]
Timeout == [kind |-> "Timeout"]
ConnectionError == [kind |-> "ConnectionError"]
InvalidSchema == [kind |-> "InvalidSchema"]

OtherStatus == {200, 301, 403}

Outcomes == {Status(c) : c \in bad_status \cup OtherStatus}
                \cup {Timeout, ConnectionError, InvalidSchema}

\* the call of check_urls_in_tweet(tweet): pos is the position in
\* tweet['urls'] the for loop is at, probes the requests made so far
Call(tweet) == [tweet |-> tweet, pos |-> 1, at |-> "for", probes |-> <<>>]

\* lines 151-157: the request and the handlers around it
try_head_timeout_ignored(bad, outcome) ==
    IF outcome.kind = "response"
    THEN Return(IF outcome.status_code \in bad_status THEN TRUE ELSE bad)
    ELSE IF outcome.kind = "Timeout" THEN Return(bad)
    ELSE IF outcome.kind = "ConnectionError" THEN Return(TRUE)
    ELSE Raise(outcome.kind)

try_head(bad, outcome) ==
    IF outcome.kind = "response"
    THEN Return(IF outcome.status_code \in bad_status THEN TRUE ELSE bad)
    ELSE IF outcome.kind = "Timeout" THEN Return(TRUE)
    ELSE IF outcome.kind = "ConnectionError" THEN Return(TRUE)
    ELSE Raise(outcome.kind)

\* one step of the for loop of lines 148-160
loop_iteration(e, network) ==
    IF e.pos > Len(e.tweet.urls) THEN [e EXCEPT !.at = "returned"]
    ELSE LET url == e.tweet.urls[e.pos]
             r == try_head(e.tweet.bad, network[url])
             probe == [pos |-> e.pos, url |-> url, outcome |-> network[url],
                       before |-> e.tweet.bad]
         IN IF ~Returned(r)
            THEN [e EXCEPT !.at = "raised",
                           !.probes = Append(@, probe @@ [raised |-> TRUE])]
            ELSE [e EXCEPT !.tweet.bad = r.val,
                           !.pos = @ + 1,
                           !.at = IF r.val THEN "returned" ELSE "for",
                           !.probes = Append(@, probe @@ [raised |-> FALSE,
                                                          after |-> r.val])]

EvalTweets == { [id |-> 1, created_at |-> CreatedAt(1), text |-> <<"h", "i">>,
                 urls |-> us, bad |-> FALSE] :
                us \in SeqsUpTo(Urls, MaxUrls) \ {<<>>} }

EvalInit ==
    /\ net \in [Urls -> Outcomes]
    /\ ev \in {Call(t) : t \in EvalTweets}

CheckUrlsInTweetStep ==
    /\ ev.at = "for"
    /\ ev' = loop_iteration(ev, net)
    /\ UNCHANGED <<net, filterVars, loadVars, mainVars>>

EvalNext == CheckUrlsInTweetStep

----------------------------------------------------------------------------
(* request_confirmation *)

lower_char(c) ==
    CASE c = "Y" -> "y" [] c = "E" -> "e" [] c = "S" -> "s"
      [] c = "N" -> "n" [] c = "O" -> "o" [] OTHER -> c

lower(str) == [k \in 1..Len(str) |-> lower_char(str[k])]

request_confirmation(reply) ==
    lower(reply) \in {<<"y">>, <<"y", "e", "s">>}

\* what the operator may type at a prompt
Replies == { <<"y">>, <<"Y", "e", "S">>, <<"n">>, <<"y", "e">>, <<>> }

----------------------------------------------------------------------------
(* The main program, lines 213-241 *)

DefaultProcesses == 4

PyInt(n) == [type |-> "int", int |-> n]
PyStr(chars) == [type |-> "str", str |-> chars]
Absent == [type |-> "absent"]

\* argparse, line 217: the option has a default and no type, so a value given
\* on the command line stays the string it is
parse_args(option) ==
    [processes |-> IF option.type = "absent" THEN PyInt(DefaultProcesses)
                   ELSE option]

\* mp.Pool(processes), line 234: Pool compares processes with 1, which
\* raises TypeError for a string
Pool(processes) ==
    IF processes.type # "int" THEN Raise("TypeError")
    ELSE IF processes.int < 1 THEN Raise("ValueError")
    ELSE Return([w \in 1..processes.int |-> [at |-> "idle"]])

PostA == [id |-> 1, created_at |-> CreatedAt(1), text |-> <<"h", "i">>,
          retweeted |-> FALSE, entities |-> [urls |-> <<[expanded_url |-> "u1"]>>]]
PostB == [id |-> 2, created_at |-> CreatedAt(2), text |-> <<"h", "i">>,
          retweeted |-> FALSE,
          entities |-> [urls |-> <<[expanded_url |-> "u2"], [expanded_url |-> "u1"]>>]]
PostR == [id |-> 3, created_at |-> CreatedAt(3), text |-> <<"R", "T", " ", "@", "a">>,
          retweeted |-> FALSE, entities |-> [urls |-> <<[expanded_url |-> "u1"]>>]]

Timeline == {PostA, PostB, PostR}
ExistingBackups == {NoFile, File(<<JsonLine(PostA)>>), File(<<JsonLine(PostB), BlankLine>>)}
Options == {Absent, PyStr(<<"1">>), PyStr(<<"8">>)}

\* requests.head that does not return: the timeout of line 151 bounds each
\* wait on the socket, not the request as a whole
Hang == [kind |-> "Hang"]

MainOutcomes == {Status(200), Status(404), Timeout, InvalidSchema, Hang}

\* a timeline lists a tweet once
Timelines == {f \in SeqsUpTo(Timeline, MaxFeed) :
                 \A a, b \in 1..Len(f) : a < b => f[a].id # f[b].id}

ProgramStart ==
    /\ argv \in Options
    /\ backup \in ExistingBackups
    /\ feed \in Timelines
    /\ net \in [Urls -> MainOutcomes]
    /\ pc = "parse_args"
    /\ args = [processes |-> Absent]
    /\ tweets = <<>> /\ cands = <<>>
    /\ taskq = <<>> /\ worker = <<>> /\ outq = <<>>
    /\ result = <<>> /\ bad_tweets = <<>> /\ deletes = <<>>
    /\ undumped = {}

funVars == <<fin, fhist, lfile, lret, ev>>

\* lines 214-218
ParseArgs ==
    /\ pc = "parse_args"
    /\ args' = parse_args(argv)
    /\ pc' = "backup_exists"
    /\ UNCHANGED <<funVars, undumped, net, argv, backup, feed, tweets, cands, poolVars,
                   result, bad_tweets, deletes>>

\* lines 220-222
RemoveBackup ==
    /\ pc = "backup_exists"
    /\ IF backup.exists
       THEN \E reply \in Replies :
                backup' = IF request_confirmation(reply) THEN NoFile ELSE backup
       ELSE backup' = backup
    /\ pc' = "get_tweets"
    /\ UNCHANGED <<funVars, undumped, net, argv, args, feed, tweets, cands, poolVars,
                   result, bad_tweets, deletes>>

\* dump_to_file, lines 44-53: the line is appended (to a new file when there
\* is none), or the write fails, which is reported and otherwise ignored
dump_to_file(tweet, f, written) ==
    IF ~written THEN f
    ELSE IF f.exists THEN File(Append(f.lines, JsonLine(tweet)))
    ELSE File(<<JsonLine(tweet)>>)

\* get_tweets, lines 99-111: one status of the timeline
GetTweet ==
    /\ pc = "get_tweets"
    /\ feed # <<>>
    /\ \E written \in BOOLEAN :
           /\ backup' = dump_to_file(Head(feed), backup, written)
           /\ undumped' = IF written THEN undumped ELSE undumped \cup {Head(feed).id}
    /\ feed' = Tail(feed)
    /\ UNCHANGED <<funVars, net, argv, args, pc, tweets, cands, poolVars,
                   result, bad_tweets, deletes>>

\* the backup file removed once its tweets are loaded
LoadTweetsAndRemoveBackup ==
    /\ pc = "get_tweets"
    /\ feed = <<>>
    /\ tweets' = load_tweets_from_file(backup).tweets
    /\ backup' = NoFile
    /\ pc' = "pool"
    /\ UNCHANGED <<funVars, undumped, net, argv, args, feed, cands, poolVars,
                   result, bad_tweets, deletes>>

\* line 231, the timeline being exhausted
LoadTweets ==
    /\ pc = "get_tweets"
    /\ feed = <<>>
    /\ tweets' = load_tweets_from_file(backup).tweets
    /\ pc' = "pool"
    /\ UNCHANGED <<funVars, undumped, net, argv, args, backup, feed, cands, poolVars,
                   result, bad_tweets, deletes>>

\* line 234
CreatePool ==
    /\ pc = "pool"
    /\ IF Returned(Pool(args.processes))
       THEN worker' = Pool(args.processes).val /\ pc' = "imap"
       ELSE worker' = worker /\ pc' = Pool(args.processes).exc
    /\ UNCHANGED <<funVars, undumped, net, argv, args, backup, feed, tweets, cands,
                   taskq, outq, result, bad_tweets, deletes>>

\* lines 235-236: the tweets are filtered and one task per candidate is queued
ImapUnordered ==
    /\ pc = "imap"
    /\ cands' = filter_tweets_with_urls(filter_retweets(tweets).val).val
    /\ taskq' = [k \in 1..Len(cands') |-> k]
    /\ pc' = "scan"
    /\ UNCHANGED <<funVars, undumped, net, argv, args, backup, feed, tweets, worker, outq,
                   result, bad_tweets, deletes>>

\* a worker process reads the next task and leaves it in the queue
TakeTaskLeftInQueue(w) ==
    /\ pc = "scan"
    /\ worker[w].at = "idle"
    /\ taskq # <<>>
    /\ worker' = [worker EXCEPT ![w] = [task |-> Head(taskq)] @@ Call(cands[Head(taskq)])]
    /\ UNCHANGED <<funVars, undumped, net, argv, args, backup, feed, pc, tweets, cands,
                   taskq, outq, result, bad_tweets, deletes>>

\* a worker process takes the next task: it works on its own copy of the tweet
TakeTask(w) ==
    /\ pc = "scan"
    /\ worker[w].at = "idle"
    /\ taskq # <<>>
    /\ worker' = [worker EXCEPT ![w] = [task |-> Head(taskq)] @@ Call(cands[Head(taskq)])]
    /\ taskq' = Tail(taskq)
    /\ UNCHANGED <<funVars, undumped, net, argv, args, backup, feed, pc, tweets, cands, outq,
                   result, bad_tweets, deletes>>

\* the call is inside a requests.head that does not return
hangs(e, network) ==
    /\ e.at = "for"
    /\ e.pos <= Len(e.tweet.urls)
    /\ network[e.tweet.urls[e.pos]].kind = "Hang"

\* a worker process runs one step of check_urls_in_tweet
CheckUrl(w) ==
    /\ pc = "scan"
    /\ worker[w].at = "for"
    /\ ~hangs(worker[w], net)
    /\ worker' = [worker EXCEPT ![w] =
                     [task |-> worker[w].task] @@ loop_iteration(worker[w], net)]
    /\ UNCHANGED <<funVars, undumped, net, argv, args, backup, feed, pc, tweets, cands, taskq,
                   outq, result, bad_tweets, deletes>>

\* the result put in front of the results not consumed yet
PutResultInFront(w) ==
    /\ pc = "scan"
    /\ worker[w].at \in {"returned", "raised"}
    /\ outq' = << IF worker[w].at = "returned"
                  THEN [task |-> worker[w].task] @@ Return(worker[w].tweet)
                  ELSE [task |-> worker[w].task]
                           @@ Raise(worker[w].probes[Len(worker[w].probes)].outcome.kind) >>
                \o outq
    /\ worker' = [worker EXCEPT ![w] = [at |-> "idle"]]
    /\ UNCHANGED <<funVars, undumped, net, argv, args, backup, feed, pc, tweets, cands, taskq,
                   result, bad_tweets, deletes>>

\* a worker process sends what the call returned or raised
PutResult(w) ==
    /\ pc = "scan"
    /\ worker[w].at \in {"returned", "raised"}
    /\ outq' = Append(outq,
                 IF worker[w].at = "returned"
                 THEN [task |-> worker[w].task] @@ Return(worker[w].tweet)
                 ELSE [task |-> worker[w].task]
                          @@ Raise(worker[w].probes[Len(worker[w].probes)].outcome.kind))
    /\ worker' = [worker EXCEPT ![w] = [at |-> "idle"]]
    /\ UNCHANGED <<funVars, undumped, net, argv, args, backup, feed, pc, tweets, cands, taskq,
                   result, bad_tweets, deletes>>

select_all(r) == TRUE

\* the condition of the list comprehension of line 239
select(r) == r.val.bad

\* the result read and left in the queue
NextResultLeftInQueue ==
    /\ pc = "scan"
    /\ outq # <<>>
    /\ Len(result) < Len(cands)
    /\ IF Returned(Head(outq))
       THEN /\ result' = Append(result, Head(outq))
            /\ bad_tweets' = IF select(Head(outq)) THEN Append(bad_tweets, Head(outq))
                             ELSE bad_tweets
            /\ pc' = pc
       ELSE /\ pc' = "raised"
            /\ UNCHANGED <<result, bad_tweets>>
    /\ UNCHANGED <<funVars, undumped, net, argv, args, backup, feed, tweets, cands, taskq,
                   worker, outq, deletes>>

\* line 239: the list comprehension takes the next result of the iterator,
\* which raises in the main program what the call raised in the worker
NextResult ==
    /\ pc = "scan"
    /\ outq # <<>>
    /\ outq' = Tail(outq)
    /\ IF Returned(Head(outq))
       THEN /\ result' = Append(result, Head(outq))
            /\ bad_tweets' = IF select(Head(outq)) THEN Append(bad_tweets, Head(outq))
                             ELSE bad_tweets
            /\ pc' = pc
       ELSE /\ pc' = "raised"
            /\ UNCHANGED <<result, bad_tweets>>
    /\ UNCHANGED <<funVars, undumped, net, argv, args, backup, feed, tweets, cands, taskq,
                   worker, deletes>>

scan_over_early == TRUE

\* the iterator ends when it has yielded one result per task
scan_over == Len(result) = Len(cands)

\* line 239 to line 240
StopIteration ==
    /\ pc = "scan"
    /\ scan_over
    /\ pc' = "delete"
    /\ UNCHANGED <<funVars, undumped, net, argv, args, backup, feed, tweets, cands, poolVars,
                   result, bad_tweets, deletes>>

\* delete_tweet, lines 189-200, called with interactive = True by line 241
delete_tweet(r, reply) ==
    [task |-> r.task, tweet |-> r.val, reply |-> reply] @@
    IF ~request_confirmation(reply)
    THEN [destroy_status |-> FALSE]
    ELSE [destroy_status |-> TRUE, id |-> r.val.id]

\* lines 240-241: one tweet of bad_tweets
DeleteTweet ==
    /\ pc = "delete"
    /\ Len(deletes) < Len(bad_tweets)
    /\ \E reply \in Replies :
           deletes' = Append(deletes, delete_tweet(bad_tweets[Len(deletes) + 1], reply))
    /\ UNCHANGED <<funVars, undumped, net, argv, args, backup, feed, pc, tweets, cands, poolVars,
                   result, bad_tweets>>

Exit ==
    /\ pc = "delete"
    /\ Len(deletes) = Len(bad_tweets)
    /\ pc' = "done"
    /\ UNCHANGED <<funVars, undumped, net, argv, args, backup, feed, tweets, cands, poolVars,
                   result, bad_tweets, deletes>>

Next ==
    \/ ParseArgs
    \/ RemoveBackup
    \/ GetTweet
    \/ LoadTweets
    \/ CreatePool
    \/ ImapUnordered
    \/ \E w \in DOMAIN worker : TakeTask(w)
    \/ \E w \in DOMAIN worker : CheckUrl(w)
    \/ \E w \in DOMAIN worker : PutResult(w)
    \/ NextResult
    \/ StopIteration
    \/ DeleteTweet
    \/ Exit

----------------------------------------------------------------------------
(* Specifications *)

FilterIdle == fin = <<>> /\ fhist = <<>>
LoadIdle == lfile = NoFile /\ lret = NotLoaded
EvalIdle == ev = [at |-> "idle"]
NetIdle == net = [u \in Urls |-> Status(200)]
MainIdle ==
    /\ argv = Absent /\ args = [processes |-> Absent]
    /\ backup = NoFile /\ feed = <<>> /\ pc = "idle"
    /\ tweets = <<>> /\ cands = <<>>
    /\ taskq = <<>> /\ worker = <<>> /\ outq = <<>>
    /\ result = <<>> /\ bad_tweets = <<>> /\ deletes = <<>>
    /\ undumped = {}

Init == ProgramStart /\ FilterIdle /\ LoadIdle /\ EvalIdle
InitFilter == FilterInit /\ LoadIdle /\ EvalIdle /\ NetIdle /\ MainIdle
InitLoad == LoadInit /\ FilterIdle /\ EvalIdle /\ NetIdle /\ MainIdle
InitEval == EvalInit /\ FilterIdle /\ LoadIdle /\ MainIdle

Spec == Init /\ [][Next]_vars

\* the main process and each worker process of the pool are scheduled as
\* long as they can take a step, and the operator answers the prompts
MainNext ==
    \/ ParseArgs \/ RemoveBackup \/ GetTweet \/ LoadTweets \/ CreatePool
    \/ ImapUnordered \/ NextResult \/ StopIteration \/ DeleteTweet \/ Exit

WorkerNext(w) == TakeTask(w) \/ CheckUrl(w) \/ PutResult(w)

Fairness ==
    /\ WF_vars(MainNext)
    /\ \A w \in 1..DefaultProcesses : WF_vars(WorkerNext(w))

FairSpec == Init /\ [][Next]_vars /\ Fairness
SpecFilter == InitFilter /\ [][FilterNext]_vars
SpecLoad == InitLoad /\ [][LoadNext]_vars
SpecEval == InitEval /\ [][EvalNext]_vars

----------------------------------------------------------------------------
(* Properties of check_urls_in_tweet (SpecEval) *)

\* the classification of a probe outcome as the specification words it
DeadStatus == {400, 401, 402, 404, 406, 410, 413, 500, 502, 504}

Dead(outcome) ==
    \/ outcome.kind = "response" /\ outcome.status_code \in DeadStatus
    \/ outcome.kind = "Timeout"
    \/ outcome.kind = "ConnectionError"

DeadPositions == {i \in 1..Len(ev.tweet.urls) : Dead(net[ev.tweet.urls[i]])}

FirstDead == CHOOSE i \in DeadPositions : \A j \in DeadPositions : i <= j

\* C1: a tweet that entered check_urls_in_tweet with bad = False is returned
\* with bad = True if and only if at least one of its urls is Dead; when all
\* its urls are Alive it is returned with bad = False.
C1_BadIffSomeUrlDead ==
    ev.at = "returned" => (ev.tweet.bad <=> DeadPositions # {})

C1_Witness ==
    /\ ev.at = "returned"
    /\ ev.tweet.bad
    /\ Len(ev.tweet.urls) = 2
    /\ DeadPositions = {2}
    /\ Len(ev.probes) = 2

\* C6: a probe marks the url Dead exactly when the status code is in the
\* blocklist, the request times out or the connection fails; every other
\* outcome classifies the url Alive: the evaluation goes on and the bad flag
\* is left as it was.
C6_DeadExactlyOnBlocklistTimeoutConnection ==
    ev.at # "idle" =>
        \A k \in 1..Len(ev.probes) :
            LET p == ev.probes[k]
            IN /\ ~p.raised
               /\ Dead(p.outcome) => p.after = TRUE
               /\ ~Dead(p.outcome) => p.after = p.before

\* C7: the urls are probed in list order from the first on, each at most
\* once, none after the first Dead one; when the evaluation is over, the
\* probed urls are those up to the first Dead one, or all of them when no
\* url is Dead.
C7_ProbedInOrderUpToFirstDead ==
    ev.at # "idle" =>
        /\ \A k \in 1..Len(ev.probes) : ev.probes[k].pos = k
        /\ DeadPositions # {} => Len(ev.probes) <= FirstDead
        /\ ev.at \in {"returned", "raised"} =>
               Len(ev.probes) = IF DeadPositions # {} THEN FirstDead
                                ELSE Len(ev.tweet.urls)

----------------------------------------------------------------------------
(* Properties of the filters (SpecFilter) *)

ChainStarts(names) ==
    /\ Len(fhist) >= Len(names)
    /\ \A k \in 1..Len(names) : fhist[k].fn = names[k]

\* the positions of the posts the filters are to keep
Kept(posts) ==
    {i \in 1..Len(posts) :
        /\ posts[i].retweeted = FALSE
        /\ ~(Len(posts[i].text) >= 2 /\ posts[i].text[1] = "R"
                                     /\ posts[i].text[2] = "T")
        /\ Len(posts[i].entities.urls) > 0}

CandidateOf(c, P) ==
    /\ DOMAIN c = {"id", "created_at", "text", "urls", "bad"}
    /\ c.id = P.id /\ c.created_at = P.created_at /\ c.text = P.text
    /\ c.urls # <<>>
    /\ Len(c.urls) = Len(P.entities.urls)
    /\ \A j \in 1..Len(c.urls) : c.urls[j] = P.entities.urls[j].expanded_url
    /\ c.bad = FALSE

OneCandidatePerKeptPost(posts, out) ==
    \E f \in [1..Len(out) -> 1..Len(posts)] :
        /\ \A a, b \in 1..Len(out) : a < b => f[a] < f[b]
        /\ {f[k] : k \in 1..Len(out)} = Kept(posts)
        /\ \A k \in 1..Len(out) : CandidateOf(out[k], posts[f[k]])

\* C8: filter_tweets_with_urls(filter_retweets(posts)) yields, in source
\* order, exactly one candidate for each post that is not flagged retweeted,
\* whose text does not start with "RT" and that has url entities; the
\* candidate carries the post's id, created_at and text, its expanded urls
\* in order, and bad = False.
C8_PipelineYieldsCandidates ==
    ChainStarts(<<"filter_retweets", "filter_tweets_with_urls">>) =>
        /\ Returned(fhist[1].res)
        /\ Returned(fhist[2].res)
        /\ OneCandidatePerKeptPost(fin, fhist[2].res.val)

C8_Witness ==
    /\ ChainStarts(<<"filter_retweets", "filter_tweets_with_urls">>)
    /\ Len(fin) = 2
    /\ ~fin[1].retweeted /\ startswith(fin[1].text, RT)
    /\ fin[1].entities.urls # <<>>
    /\ Kept(fin) = {2}
    /\ Len(fin[2].entities.urls) = 2
    /\ Len(fhist[2].res.val) = 1

\* C9 as stated: the two filters applied a second time, to the output of
\* their first application, succeed and yield the same set of records.
C9_ReapplyingToOutputYieldsSameSet ==
    ChainStarts(<<"filter_retweets", "filter_tweets_with_urls",
                  "filter_retweets">>) =>
        /\ Returned(fhist[3].res)
        /\ (Len(fhist) >= 4 /\ fhist[4].fn = "filter_tweets_with_urls") =>
               /\ Returned(fhist[4].res)
               /\ {fhist[4].res.val[k] : k \in 1..Len(fhist[4].res.val)}
                    = {fhist[2].res.val[k] : k \in 1..Len(fhist[2].res.val)}

\* C9 amended: filter_retweets applied a second time to its own output
\* returns it unchanged, and filter_tweets_with_urls then yields the same
\* candidates as after one application; applied to a non-empty list of
\* candidates either filter raises KeyError, applied to an empty one it
\* returns the empty list.
C9_RetweetFilterIdempotent ==
    /\ ChainStarts(<<"filter_retweets", "filter_retweets">>) =>
           /\ Returned(fhist[2].res)
           /\ fhist[2].res = fhist[1].res
    /\ ChainStarts(<<"filter_retweets", "filter_retweets",
                     "filter_tweets_with_urls">>) =>
           /\ Returned(fhist[3].res)
           /\ OneCandidatePerKeptPost(fin, fhist[3].res.val)
    /\ (ChainStarts(<<"filter_retweets", "filter_tweets_with_urls">>)
            /\ Len(fhist) >= 3) =>
           fhist[3].res = IF fhist[2].res.val = <<>> THEN Return(<<>>)
                          ELSE Raise("KeyError")

C9_Witness ==
    /\ ChainStarts(<<"filter_retweets", "filter_retweets",
                     "filter_tweets_with_urls">>)
    /\ Len(fin) = 2
    /\ fin[1].retweeted
    /\ Kept(fin) = {2}
    /\ fhist[2].res.val = <<fin[2]>>
    /\ Len(fhist[3].res.val) = 1

----------------------------------------------------------------------------
(* Properties of load_tweets_from_file (SpecLoad) *)

RECURSIVE WellFormed(_)
WellFormed(ls) ==
    IF ls = <<>> THEN <<>>
    ELSE IF Head(ls).json THEN <<Head(ls).value>> \o WellFormed(Tail(ls))
         ELSE WellFormed(Tail(ls))

\* C10: each malformed line of the dump is skipped with a message and the
\* loading continues: the tweets of all the well-formed lines are returned,
\* in file order.
C10_MalformedLinesSkipped ==
    (lret.called /\ lfile.exists) =>
        lret.tweets = WellFormed(lfile.lines)
    
----------------------------------------------------------------------------
(* Properties of the main program (Spec) *)

\* the replies the prompt is to take for a yes, whatever their case
Affirmative(reply) ==
    \/ Len(reply) = 1 /\ reply[1] \in {"y", "Y"}
    \/ /\ Len(reply) = 3
       /\ reply[1] \in {"y", "Y"} /\ reply[2] \in {"e", "E"} /\ reply[3] \in {"s", "S"}

ResultsOf(task) == {j \in 1..Len(result) : result[j].task = task}
DeletesOf(task) == {k \in 1..Len(deletes) : deletes[k].task = task}

\* C2: destroy_status is called for a tweet id only if the tweet's candidate
\* came out of the scan with bad = True and the operator answered the prompt
\* with y or yes in any case; a candidate that is not bad, or whose prompt
\* got another reply, is not deleted; every bad candidate of the results
\* gets exactly one call of delete_tweet.
C2_OnlyConfirmedBadTweetsDeleted ==
    /\ \A k \in 1..Len(deletes) :
           /\ \E j \in ResultsOf(deletes[k].task) : result[j].val.bad
           /\ deletes[k].destroy_status <=> Affirmative(deletes[k].reply)
           /\ deletes[k].destroy_status => deletes[k].id = cands[deletes[k].task].id
    /\ \A j \in 1..Len(result) :
           /\ ~result[j].val.bad => DeletesOf(result[j].task) = {}
           /\ Cardinality(DeletesOf(result[j].task)) <= 1
           /\ (pc = "done" /\ result[j].val.bad) =>
                  Cardinality(DeletesOf(result[j].task)) = 1

C2_Witness ==
    /\ pc = "done"
    /\ Len(result) = 2
    /\ \E j \in 1..2 : ~result[j].val.bad
    /\ Len(deletes) = 1
    /\ deletes[1].reply = <<"Y", "e", "S">>
    /\ deletes[1].destroy_status

\* C3: no call of delete_tweet is made while the scan is in flight: when the
\* first one is made, every candidate given to the pool has been evaluated
\* and its result consumed.
C3_NoDeleteBeforeScanOver ==
    deletes # <<>> =>
        /\ taskq = <<>>
        /\ outq = <<>>
        /\ \A w \in DOMAIN worker : worker[w].at = "idle"
        /\ \A i \in 1..Len(cands) : ResultsOf(i) # {}

C3_Witness ==
    /\ Len(deletes) = 1
    /\ Len(cands) = 3
    /\ Len(bad_tweets) = 3
    /\ result[1].task # 1

\* the verdict the urls of a candidate give it when they are probed in order
RaisesAt(c) == {j \in 1..Len(c.urls) : ~Dead(net[c.urls[j]])
                                       /\ net[c.urls[j]].kind # "response"}
DeadAt(c) == {j \in 1..Len(c.urls) : Dead(net[c.urls[j]])}
BadByItsUrls(c) == \E j \in DeadAt(c) : \A r \in RaisesAt(c) : j < r

\* C4: an error local to one tweet or url does not abort the scan of the
\* others: whatever the probes of one candidate do, when the program stops
\* every other candidate has been evaluated, its result has been consumed,
\* and it has been offered for deletion if it is bad.
C4_ProbeErrorDoesNotAbortScan ==
    pc \in {"done", "raised"} =>
        \A i \in 1..Len(cands) :
            RaisesAt(cands[i]) = {} =>
                /\ ResultsOf(i) # {}
                /\ BadByItsUrls(cands[i]) => DeletesOf(i) # {}

\* the tweets that are to be flagged bad, whatever the number of workers
ExpectedBad(id) ==
    {i \in Kept(tweets) :
        /\ tweets[i].id = id
        /\ \E j \in 1..Len(tweets[i].entities.urls) :
               Dead(net[tweets[i].entities.urls[j].expanded_url])}

FlaggedBad(id) ==
    {j \in 1..Len(result) : result[j].val.id = id /\ result[j].val.bad}

EveryUrlDeadOrAlive == \A u \in Urls : net[u].kind \notin {"InvalidSchema", "Hang"}

TimelineIds == {p.id : p \in Timeline}

\* C5: for a given list of tweets and a given Dead or Alive outcome of every
\* url, the program run with any number of workers >= 1 (1, 4, 8) ends the
\* scan with the same candidates flagged bad, in every interleaving.
C5_SameBadSetForEveryWorkerCount ==
    (EveryUrlDeadOrAlive /\ pc \in {"done", "raised", "TypeError", "ValueError"}) =>
        \A id \in TimelineIds : Cardinality(FlaggedBad(id)) = Cardinality(ExpectedBad(id))

\* with the default number of workers the candidates flagged bad are the
\* same in every interleaving
DefaultWorkersSameBadSet ==
    (EveryUrlDeadOrAlive /\ pc = "done") =>
        \A id \in TimelineIds : Cardinality(FlaggedBad(id)) = Cardinality(ExpectedBad(id))

----------------------------------------------------------------------------
(* Properties of the pool (Spec) *)

HeldBy(i) == {w \in DOMAIN worker : worker[w].at # "idle" /\ worker[w].task = i}
WaitingAt(i) == {k \in 1..Len(taskq) : taskq[k] = i}
ProducedAt(i) == {k \in 1..Len(outq) : outq[k].task = i}

\* C11: during the scan no candidate is held or mutated by more than one
\* worker: every candidate is at one place only (waiting, held by one
\* worker, or evaluated), a worker changes its own copy only, and the list
\* of candidates and the probe configuration the workers share stay as they
\* were.
C11_NoCandidateHeldByTwoWorkers ==
    pc = "scan" =>
        /\ \A i \in 1..Len(cands) :
               /\ Cardinality(HeldBy(i)) <= 1
               /\ Cardinality(WaitingAt(i)) + Cardinality(HeldBy(i))
                    + Cardinality(ProducedAt(i)) + Cardinality(ResultsOf(i)) = 1
               /\ cands[i].bad = FALSE
        /\ \A w \in DOMAIN worker :
               worker[w].at # "idle" =>
                   [worker[w].tweet EXCEPT !.bad = FALSE] = cands[worker[w].task]

C11_Witness ==
    /\ pc = "scan"
    /\ \E v, w \in DOMAIN worker :
           /\ v # w
           /\ worker[v].at = "returned" /\ worker[v].tweet.bad
           /\ worker[w].at = "for" /\ worker[w].pos = 2
           /\ worker[v].task # worker[w].task

----------------------------------------------------------------------------
(* Progress of the scan (FairSpec) *)

\* the most candidates a run has: those of the timeline and those of the
\* backup file that was kept
MaxCands == MaxFeed + 1

\* the evaluation of a candidate reaches a url whose probe does not return
WillHang(c) ==
    \E j \in 1..Len(c.urls) :
        /\ net[c.urls[j]].kind = "Hang"
        /\ \A k \in 1..(j - 1) : net[c.urls[k]].kind = "response" /\ ~Dead(net[c.urls[k]])

Evaluated(i) == ProducedAt(i) # {} \/ ResultsOf(i) # {}

NoProbeRaises == \A u \in Urls : net[u].kind # "InvalidSchema"

\* C12: with two workers or more, a probe that hangs blocks the worker that
\* holds it and nothing else: every candidate whose own probes return is
\* eventually evaluated and its result produced.
C12_HungProbeBlocksOnlyItsWorker ==
    \A i \in 1..MaxCands :
        [](( /\ pc = "scan"
             /\ Len(worker) >= 2
             /\ \E w \in DOMAIN worker : hangs(worker[w], net)
             /\ i <= Len(cands)
             /\ ~WillHang(cands[i]) )
           => <>Evaluated(i))

\* the same, for the runs in which no probe raises an exception that
\* check_urls_in_tweet does not catch
HungProbeBlocksOnlyItsWorkerUnlessRaise ==
    \A i \in 1..MaxCands :
        [](( /\ pc = "scan"
             /\ NoProbeRaises
             /\ Len(worker) >= 2
             /\ \E w \in DOMAIN worker : hangs(worker[w], net)
             /\ i <= Len(cands)
             /\ ~WillHang(cands[i]) )
           => <>Evaluated(i))

AllProbesReturn ==
    \A u \in Urls : net[u].kind \in {"response", "Timeout", "ConnectionError"}

ScanOver ==
    /\ pc \in {"delete", "done"}
    /\ \A i \in 1..Len(cands) : ResultsOf(i) # {}

\* C13: when every probe returns a status, a timeout or a connection
\* failure, the scan terminates for every number of workers >= 1: every
\* result is consumed and the deletion phase is reached; and a worker that
\* never returns keeps the deletion phase from starting.
C13_ScanTerminatesIffProbesReturn ==
    /\ AllProbesReturn => <>ScanOver
    /\ []((pc \in {"scan", "delete", "done"}
              /\ \E i \in 1..Len(cands) : WillHang(cands[i]))
            => pc = "scan")

\* the same, for the runs started without --processes
DefaultRunTerminatesIffProbesReturn ==
    /\ (AllProbesReturn /\ argv = Absent) => <>ScanOver
    /\ []((pc \in {"scan", "delete", "done"}
              /\ \E i \in 1..Len(cands) : WillHang(cands[i]))
            => pc = "scan")

----------------------------------------------------------------------------
(* Order and completeness of the results (Spec) *)

\* the tasks whose results the workers have sent, consumed or not, in the
\* order the main program gets them
ArrivalOrder(res, q) ==
    [k \in 1..(Len(res) + Len(q)) |->
        IF k <= Len(res) THEN res[k].task ELSE q[k - Len(res)].task]

IsPrefix(a, b) == Len(a) <= Len(b) /\ SubSeq(b, 1, Len(a)) = a

Completing(w) ==
    /\ worker[w].at \in {"returned", "raised"}
    /\ worker'[w].at = "idle"

\* C14: the results reach the consumer in the order in which the workers
\* complete them, not in the order of submission: a result a worker
\* completes goes behind all those completed before, the consumer takes the
\* oldest one, and bad_tweets keeps the bad ones in that order.
C14_ResultsInCompletionOrder ==
    [][ (pc = "scan" /\ pc' # "raised") =>
          /\ IsPrefix(ArrivalOrder(result, outq), ArrivalOrder(result', outq'))
          /\ \A w \in DOMAIN worker :
                 Completing(w) =>
                     ArrivalOrder(result', outq')
                         = Append(ArrivalOrder(result, outq), worker[w].task)
          /\ result' # result => result' = Append(result, Head(outq))
          /\ bad_tweets' = SelectSeq(result', LAMBDA r : r.val.bad) ]_vars

C14_Witness ==
    /\ pc = "delete"
    /\ Len(cands) >= 2
    /\ result[1].task # 1
    /\ Len(bad_tweets) = 2
    /\ bad_tweets[1].task > bad_tweets[2].task

\* C15: when the results are exhausted they hold every candidate given to
\* the pool exactly once, in any interleaving; an empty list of candidates
\* gives no result and no bad tweet.
C15_EveryCandidateExactlyOnce ==
    pc \in {"delete", "done"} =>
        /\ Len(result) = Len(cands)
        /\ \A i \in 1..Len(cands) :
               /\ Cardinality(ResultsOf(i)) = 1
               /\ \A j \in ResultsOf(i) : [result[j].val EXCEPT !.bad = FALSE] = cands[i]
        /\ cands = <<>> => (result = <<>> /\ bad_tweets = <<>>)

C15_Witness ==
    /\ pc = "delete"
    /\ Len(cands) = 3
    /\ Len(result) = 3
    /\ result[1].task = 2 /\ result[2].task = 3 /\ result[3].task = 1

----------------------------------------------------------------------------
(* Deletion and the backup file (Spec) *)

DestroyedWith(id) ==
    {k \in 1..Len(deletes) : deletes[k].destroy_status /\ deletes[k].id = id}

\* C16: in one run destroy_status is called at most once for a tweet id,
\* whether the operator had the existing backup file removed or kept.
C16_DestroyAtMostOncePerId ==
    \A id \in TimelineIds : Cardinality(DestroyedWith(id)) <= 1

HasRecord(id) ==
    /\ backup.exists
    /\ \E k \in 1..Len(backup.lines) :
           backup.lines[k].json /\ backup.lines[k].value.id = id

\* C17 as stated: every tweet destroy_status is called for has a record in
\* the backup file at that time, and a tweet whose dump failed is never
\* deleted.
C17_DeletedTweetDumpedAndInBackup ==
    \A k \in 1..Len(deletes) :
        deletes[k].destroy_status =>
            /\ HasRecord(deletes[k].id)
            /\ deletes[k].id \notin undumped

\* C17 amended: every tweet destroy_status is called for has a record in the
\* backup file at that time, so a tweet without a record in the file is
\* never deleted; a tweet whose dump failed in this run is deleted only on
\* the record the kept backup file already held.
C17_DeletedTweetInBackup ==
    \A k \in 1..Len(deletes) :
        deletes[k].destroy_status => HasRecord(deletes[k].id)

C17_Witness ==
    /\ pc = "done"
    /\ DestroyedWith(1) # {}
    /\ undumped = {2}
    /\ ~HasRecord(2)

====
